---- MODULE Spec2Model ----
(***************************************************************************)
(* Model of pymatgen_diffusion/aimd/van_hove.py: the constructors of       *)
(* VanHoveAnalysis (self and distinct part of the van Hove function) and   *)
(* of RadialDistributionFunction.                                          *)
(*                                                                         *)
(* Numbers.  Lengths are integers in units of the cutoff tolerance 1e-8    *)
(* that line 286 adds to rmax (Eps).  The lattice is cubic with edge       *)
(* `lattice`, sites sit on the x axis at integer positions, so every       *)
(* squared distance is an integer and int(dist / dr), with                 *)
(* dr = rmax / (ngrid - 1), is computed exactly (BinIndex).                *)
(* sigma enters only through norm.pdf, so only its sign is kept.  An       *)
(* output array is kept as its coefficients over the Gaussian kernel rows: *)
(* row[b] is the exact rational factor that multiplies                     *)
(* norm.pdf(interval, interval[b], sigma).  Areas (aux_factor, ff) are in  *)
(* units of pi / (ngrid - 1)^2.                                            *)
(***************************************************************************)
EXTENDS Integers, Sequences, FiniteSets, TLC

VARIABLES kind, ngrid, rmax, sigma, step_skip, avg_nsteps, nsteps, cellrange,
          species, pc, err, structures, lattice, indices, it, dns,
          ntallied, dists, r_indices, ncand, hist, reads, applied, gsrt, gdrt, rdf, obj

vars == <<kind, ngrid, rmax, sigma, step_skip, avg_nsteps, nsteps, cellrange,
          species, pc, err, structures, lattice, indices, it, dns,
          ntallied, dists, r_indices, ncand, hist, reads, applied, gsrt, gdrt, rdf, obj>>

----------------------------------------------------------------------------
(* Bounds of the model *)
MaxGrid == 3
MaxR == 2
MaxCell == 1
MaxSteps == 3

(* rmax + 1e-8 at line 286: the tolerance is the unit of length *)
Eps == 1

(* the other inputs the model draws from *)
StepSkips == {0, 1, 2}
AvgNsteps == {0, 1, 2}
Sigmas == {0, 1}
EnsembleSizes == {1, 2}
Edges == {1, 2}
Sites == 1..3
NSites == Cardinality(Sites)
Symbols == {"Li", "O"}
SpeciesChoices == {{"Li", "Na"}}

----------------------------------------------------------------------------
(* Arithmetic helpers *)
Min(a, b) == IF a <= b THEN a ELSE b

Abs(a) == IF a < 0 THEN -a ELSE a

RECURSIVE GCD(_, _)
GCD(a, b) == IF b = 0 THEN a ELSE GCD(b, a % b)

(* a rational num/den in lowest terms; den = 0 stands for numpy's inf/nan *)
Frac(num, den) ==
    IF den = 0 THEN <<num, 0>>
    ELSE IF num = 0 THEN <<0, 1>>
    ELSE LET g == GCD(Abs(num), Abs(den)) IN
         IF den < 0 THEN <<(0 - num) \div g, (0 - den) \div g>>
         ELSE <<num \div g, den \div g>>

FracAdd(p, q) ==
    IF p[2] = 0 \/ q[2] = 0 THEN <<1, 0>>
    ELSE Frac(p[1] * q[2] + q[1] * p[2], p[2] * q[2])

ISqrt(n) == CHOOSE r \in 0..n : r * r <= n /\ n < (r + 1) * (r + 1)

RECURSIVE SumSeq(_, _)
SumSeq(s, i) == IF i > Len(s) THEN 0 ELSE s[i] + SumSeq(s, i + 1)

----------------------------------------------------------------------------
(* Input data *)

(* a structure: species symbol and position of each site, the first site
   at the origin *)
Structures(L) == [sp : [Sites -> Symbols],
                  x : {q \in [Sites -> 0..(L - 1)] : q[1] = 0}]

Composition(s, sym) == Cardinality({j \in Sites : s.sp[j] = sym})

SameComposition(s, t) == \A sym \in Symbols : Composition(s, sym) = Composition(t, sym)

(* the sites of the trajectories: two tracked ions, one, or none *)
TrajectorySites == {<<"Li", "O", "Li">>, <<"O", "O", "Li">>, <<"O", "O", "O">>}

(* An MD trajectory: the same sites in every frame, only positions change
   (here the last site moves and the others rest at the origin) *)
Trajectories(L, n) ==
    {[f \in 1..n |-> [sp |-> s, x |-> <<0, 0, m[f]>>]] :
        s \in TrajectorySites, m \in [1..n -> 0..(L - 1)]}

(* An ensemble: structures of one composition on one lattice *)
Ensembles(L, n) ==
    {e \in [1..n -> Structures(L)] : \A f \in 1..n : SameComposition(e[f], e[1])}

----------------------------------------------------------------------------
(* Radial grid *)

(* a variant that rounds to the nearest bin: int(round(dist / dr)) *)
BinIndexRounded(d2, ng, rm) ==
    (ISqrt((4 * d2 * (ng - 1) * (ng - 1)) \div (rm * rm)) + 1) \div 2

(* int(dist / dr) for dist = sqrt(d2), dr = rmax / (ngrid - 1), rmax > 0 *)
BinIndex(d2, ng, rm) == ISqrt((d2 * (ng - 1) * (ng - 1)) \div (rm * rm))

(* a variant without line 82: 4 pi r^2 at every bin *)
AuxFactorNoDisk(b, rm) == 4 * b * b * rm * rm

(* aux_factor[b], in units of pi / (ngrid - 1)^2 *)
AuxFactor(b, rm) == IF b = 0 THEN rm * rm ELSE 4 * b * b * rm * rm

(* ff for bin indx in the RDF assembly, same units *)
Ff(indx, rm) == IF indx = 0 THEN rm * rm ELSE 4 * indx * indx * rm * rm

(* lattice.volume *)
Volume(L) == L * L * L

----------------------------------------------------------------------------
(* Species selection: indices of the sites of structure ss whose symbol is
   in the requested list (0-based in the code, 1-based here, in site order) *)
Indices(ss, spc) == SelectSeq([j \in 1..NSites |-> j], LAMBDA j : ss.sp[j] \in spc)

(* all_fcoords[indices, :] *)
Tracked(ss, ind) == [u \in 1..Len(ind) |-> ss.x[ind[u]]]

----------------------------------------------------------------------------
(* Image cells *)
Width(k) == 2 * k + 1

NumImages(k) == Width(k) * Width(k) * Width(k)

(* images.reshape(((2k+1)^3, 3)): image j (0-based) *)
Images(k) ==
    [j \in 0..(NumImages(k) - 1) |->
        <<(j \div (Width(k) * Width(k))) - k,
          ((j \div Width(k)) % Width(k)) - k,
          (j % Width(k)) - k>>]

Zd(img) == img[1] * img[1] + img[2] * img[2] + img[3] * img[3]

(* np.argmin(zd): the first index of the smallest zd *)
Indx0(images) ==
    LET zs == {Zd(images[i]) : i \in DOMAIN images}
        zmin == CHOOSE z \in zs : \A y \in zs : z <= y
    IN  CHOOSE j \in DOMAIN images :
            /\ Zd(images[j]) = zmin
            /\ \A i \in 0..(j - 1) : Zd(images[i]) # zmin

(* d2[u, v, j]: squared length of a[u] + images[j] - b[v] *)
D2(a, b, u, v, img, L) ==
    LET dx == a[u] + L * img[1] - b[v] IN
    dx * dx + L * L * (img[2] * img[2] + img[3] * img[3])

(* a variant that drops every u == v and every zero-image term *)
KeepBoth(u, v, j, i0) == u # v /\ j # i0

(* the condition of the list comprehension at lines 144 and 285 *)
Keep(u, v, j, i0) == u # v \/ j # i0

(* dists before the cutoff filter, in the order u, v, j of the comprehension *)
PairDists(a, b, k, L) ==
    LET n == Len(a)
        m == NumImages(k)
        images == Images(k)
        i0 == Indx0(images)
        all == [p \in 1..(n * n * m) |->
                  LET u == ((p - 1) \div (n * m)) + 1
                      v == (((p - 1) \div m) % n) + 1
                      j == (p - 1) % m
                  IN  IF Keep(u, v, j, i0)
                      THEN D2(a, b, u, v, images[j], L)
                      ELSE -1]
    IN  SelectSeq(all, LAMBDA d : d >= 0)

(* self-part distances: get_distance_and_image(a[u], b[u], jimage=[0,0,0]) *)
SelfDists(a, b) == [u \in 1..Len(a) |-> (b[u] - a[u]) * (b[u] - a[u])]

----------------------------------------------------------------------------
(* collections.Counter: keys in the order of first insertion, and counts *)
EmptyCounter == [keys |-> <<>>, cnt |-> <<>>]

(* dns.update(r): every element of r counted, a new key appended where it
   is first met *)
CounterUpdate(c, r) ==
    LET old == {c.keys[i] : i \in 1..Len(c.keys)}
        new == {r[i] : i \in 1..Len(r)} \ old
        first == [b \in new |->
                    CHOOSE i \in 1..Len(r) :
                        r[i] = b /\ \A j \in 1..(i - 1) : r[j] # b]
        place == [b \in new |->
                    Cardinality({a \in new : first[a] < first[b]}) + 1]
        occ(b) == Cardinality({i \in 1..Len(r) : r[i] = b})
    IN  [keys |-> c.keys \o [q \in 1..Cardinality(new) |->
                                CHOOSE b \in new : place[b] = q],
         cnt |-> [b \in old \cup new |->
                    (IF b \in old THEN c.cnt[b] ELSE 0) + occ(b)]]

CounterTotal(c) == SumSeq([i \in 1..Len(c.keys) |-> c.cnt[c.keys[i]]], 1)

(* Counter.most_common(n): sorted by count, largest first, equal counts in
   the order first encountered, cut to n entries; a sequence of <<indx, dn>> *)
MostCommon(c, n) ==
    LET K == Len(c.keys)
        rank(i) == Cardinality({j \in 1..K :
                        \/ c.cnt[c.keys[j]] > c.cnt[c.keys[i]]
                        \/ c.cnt[c.keys[j]] = c.cnt[c.keys[i]] /\ j < i})
        at(r) == CHOOSE i \in 1..K : rank(i) = r - 1
    IN  [r \in 1..Min(n, K) |-> <<c.keys[at(r)], c.cnt[c.keys[at(r)]]>>]

----------------------------------------------------------------------------
(* Cutoff filters *)

(* filter(lambda e: e < rmax, dists), e = sqrt(d2) >= 0 *)
VhPass(d2, rm) == rm > 0 /\ d2 < rm * rm

(* filter(lambda e: e < rmax + 1e-8, dists) *)
RdfPass(d2, rm) == rm + Eps > 0 /\ d2 < (rm + Eps) * (rm + Eps)

----------------------------------------------------------------------------
(* Output rows: coefficient of each kernel row *)
ZeroRow(ng) == [b \in 0..(ng - 1) |-> <<0, 1>>]

AddTerm(row, indx, f) == [row EXCEPT ![indx] = FracAdd(@, f)]

RECURSIVE AddTerms(_, _, _)
AddTerms(row, terms, i) ==
    IF i > Len(terms) THEN row
    ELSE AddTerms(AddTerm(row, terms[i].indx, terms[i].coef), terms, i + 1)

----------------------------------------------------------------------------
(* VanHoveAnalysis.__init__ *)

(* a variant without the check of lines 57-58 *)
VhValidateNoLength(ss, ns, av, ng, sg) ==
    IF ss <= 0 THEN "step_skip"
    ELSE IF ng - 1 <= 0 THEN "ngrid"
    ELSE IF sg <= 0 THEN "sigma"
    ELSE "ok"

(* the initial checks, in the order of the code; "ok" when none raises *)
VhValidate(ss, ns, av, ng, sg) ==
    IF ss <= 0 THEN "step_skip"
    ELSE IF ns <= av THEN "nsteps"
    ELSE IF ng - 1 <= 0 THEN "ngrid"
    ELSE IF sg <= 0 THEN "sigma"
    ELSE "ok"

(* a variant that counts one lag too many *)
NtstepsOffByOne(ns, av) == ns - av + 1

(* ntsteps, line 60 *)
Ntsteps(ns, av) == ns - av

(* int(ntsteps / float(step_skip)) + 1: int() truncates towards zero *)
ReducedNt(nts, ss) ==
    IF nts >= 0 THEN (nts \div ss) + 1 ELSE 1 - ((0 - nts) \div ss)

It0(i, ss, nts) == Min(i * ss, nts)

(* tracking_ions[f]: f as numpy takes it, -1 for an IndexError *)
PyIndex(f, n) == IF 0 <= f /\ f < n THEN f
                 ELSE IF 0 - n <= f /\ f < 0 THEN f + n
                 ELSE -1

TrackingIons(f) == Tracked(structures[PyIndex(f, nsteps) + 1], indices)

(* one histogram of the self part (lines 102-113) or of the distinct part
   (lines 132-148): the loop over it1 from i1 on *)
RECURSIVE VhHistogram(_, _, _, _)
VhHistogram(part, st, i0, i1) ==
    IF i1 >= avg_nsteps THEN st
    ELSE IF part = "self" /\ Len(indices) = 0
         THEN VhHistogram(part, st, i0, i1 + 1)
    ELSE IF PyIndex(i1, nsteps) < 0 \/ PyIndex(i0 + i1, nsteps) < 0
         THEN [st EXCEPT !.err = "IndexError", !.reads = @ \cup {i1, i0 + i1}]
    ELSE LET a == TrackingIons(i1)
             b == TrackingIons(i0 + i1)
             all == IF part = "self" THEN SelfDists(a, b)
                    ELSE PairDists(b, a, 1, lattice)
             ds == SelectSeq(all, LAMBDA d : VhPass(d, rmax))
             ri == [i \in 1..Len(ds) |-> BinIndex(ds[i], ngrid, rmax)]
         IN  VhHistogram(part,
                         [dns |-> CounterUpdate(st.dns, ri),
                          dists |-> st.dists \o ds,
                          r_indices |-> st.r_indices \o ri,
                          reads |-> st.reads \cup {i1, i0 + i1},
                          ncand |-> Len(all),
                          err |-> "none"],
                         i0, i1 + 1)

(* the terms "for indx, dn in dns.most_common(ngrid)" adds to gsrt[it, :]
   (line 116): gaussians carries 1 / avg_nsteps / len(indices) *)
GsTerms(c) ==
    LET mc == MostCommon(c, ngrid) IN
    [i \in 1..Len(mc) |->
        [indx |-> mc[i][1], dn |-> mc[i][2], area |-> 1,
         coef |-> Frac(mc[i][2], avg_nsteps * Len(indices))]]

(* and to gdrt[it, :] (line 151): / aux_factor[indx] / rho,
   rho = len(indices) / volume *)
GdTerms(c) ==
    LET mc == MostCommon(c, ngrid) IN
    [i \in 1..Len(mc) |->
        [indx |-> mc[i][1], dn |-> mc[i][2],
         area |-> AuxFactor(mc[i][1], rmax),
         coef |-> Frac(mc[i][2] * Volume(lattice) * (ngrid - 1) * (ngrid - 1),
                       avg_nsteps * Len(indices) * Len(indices)
                           * AuxFactor(mc[i][1], rmax))]]

InGrid(terms) == \A i \in 1..Len(terms) : terms[i].indx <= ngrid - 1

NoHistory == [dns |-> EmptyCounter, dists |-> <<>>, r_indices |-> <<>>,
              reads |-> {}, ncand |-> 0, err |-> "none"]

Fail(e) == /\ pc' = "failed"
           /\ err' = e

(* lines 52-66 *)
VhCheck ==
    /\ kind = "vh"
    /\ pc = "start"
    /\ LET v == VhValidate(step_skip, nsteps, avg_nsteps, ngrid, sigma) IN
       IF v # "ok" THEN Fail(v) ELSE pc' = "load" /\ err' = err
    /\ UNCHANGED <<kind, ngrid, rmax, sigma, step_skip, avg_nsteps, nsteps,
                   cellrange, species, structures, lattice, indices, it, dns,
                   ntallied, dists, r_indices, ncand, hist, reads, applied,
                   gsrt, gdrt, rdf, obj>>

(* lines 68-97: the arrays, and the drift-corrected structures read from
   the analyzer *)
VhLoad ==
    /\ kind = "vh"
    /\ pc = "load"
    /\ \E L \in Edges : \E traj \in Trajectories(L, nsteps) :
          /\ lattice' = L
          /\ structures' = traj
          /\ indices' = Indices(traj[1], species)
    /\ LET rnt == ReducedNt(Ntsteps(nsteps, avg_nsteps), step_skip) IN
          /\ gsrt' = [i \in 0..(rnt - 1) |-> ZeroRow(ngrid)]
          /\ gdrt' = [i \in 0..(rnt - 1) |-> ZeroRow(ngrid)]
          /\ IF rnt < 0 THEN Fail("ValueError")
             ELSE /\ pc' = IF rnt > 0 THEN "self" ELSE "finish"
                  /\ err' = err
    /\ it' = 0
    /\ UNCHANGED <<kind, ngrid, rmax, sigma, step_skip, avg_nsteps, nsteps,
                   cellrange, species, dns, ntallied, dists, r_indices,
                   ncand, hist, reads, applied, rdf, obj>>

(* one pass of a loop "for it in range(reduced_nt)"; after the last pass
   of part the constructor goes on at `after` *)
VhPassOf(part, after) ==
    LET nts == Ntsteps(nsteps, avg_nsteps)
        rnt == ReducedNt(nts, step_skip)
        h == VhHistogram(part, [NoHistory EXCEPT !.reads = reads],
                         It0(it, step_skip, nts), 0)
        terms == IF part = "self" THEN GsTerms(h.dns) ELSE GdTerms(h.dns)
    IN  /\ dns' = h.dns
        /\ dists' = h.dists
        /\ r_indices' = h.r_indices
        /\ reads' = h.reads
        /\ ncand' = h.ncand
        /\ ntallied' = ntallied + CounterTotal(h.dns)
        /\ hist' = part
        /\ IF h.err # "none"
           THEN Fail(h.err) /\ UNCHANGED <<applied, gsrt, gdrt, it>>
           ELSE IF ~InGrid(terms)
           THEN Fail("IndexError") /\ UNCHANGED <<applied, gsrt, gdrt, it>>
           ELSE /\ applied' = terms
                /\ IF part = "self"
                   THEN /\ gsrt' = [gsrt EXCEPT ![it] = AddTerms(@, terms, 1)]
                        /\ gdrt' = gdrt
                   ELSE /\ gdrt' = [gdrt EXCEPT ![it] = AddTerms(@, terms, 1)]
                        /\ gsrt' = gsrt
                /\ err' = err
                /\ IF it + 1 < rnt
                   THEN it' = it + 1 /\ pc' = pc
                   ELSE it' = 0 /\ pc' = after
        /\ UNCHANGED <<kind, ngrid, rmax, sigma, step_skip, avg_nsteps, nsteps,
                       cellrange, species, structures, lattice, indices, rdf, obj>>

(* lines 100-116 *)
VhSelf ==
    /\ kind = "vh"
    /\ pc = "self"
    /\ VhPassOf("self", "distinct")

(* lines 119-151 *)
VhDistinct ==
    /\ kind = "vh"
    /\ pc = "distinct"
    /\ VhPassOf("distinct", "finish")

(* lines 153-159 *)
VhFinish ==
    /\ kind = "vh"
    /\ pc = "finish"
    /\ obj' = {"obj", "avg_nsteps", "step_skip", "rtgrid", "interval", "gsrt", "gdrt"}
    /\ pc' = "done"
    /\ UNCHANGED <<kind, ngrid, rmax, sigma, step_skip, avg_nsteps, nsteps,
                   cellrange, species, err, structures, lattice, indices, it,
                   dns, ntallied, dists, r_indices, ncand, hist, reads,
                   applied, gsrt, gdrt, rdf>>

----------------------------------------------------------------------------
(* RadialDistributionFunction.__init__ *)

(* lines 243-247 *)
RdfValidate(ng, sg) ==
    IF ng - 1 <= 0 THEN "ngrid"
    ELSE IF sg <= 0 THEN "sigma"
    ELSE "ok"

(* lines 259-261 *)
FcoordsList(structs, ind) == [f \in 1..Len(structs) |-> Tracked(structs[f], ind)]

(* lines 281-288 for one structure: the counter after dns.update, or the
   error int() raises on dist / dr when dr = 0 *)
RdfFrameOf(c, fcoords, ng, rm, k, L) ==
    LET all == PairDists(fcoords, fcoords, k, L)
        ds == SelectSeq(all, LAMBDA d : RdfPass(d, rm))
    IN  IF Len(ds) > 0 /\ rm = 0
        THEN [err |-> "ValueError", dns |-> c, dists |-> ds, r_indices |-> <<>>,
              ncand |-> Len(all)]
        ELSE LET ri == [i \in 1..Len(ds) |-> BinIndex(ds[i], ng, rm)] IN
             [err |-> "none", dns |-> CounterUpdate(c, ri), dists |-> ds,
              r_indices |-> ri, ncand |-> Len(all)]

(* the guard of line 291 *)
RdfGuard(indx, ng) == ~(indx > ng - 1)

(* a variant that also divides by the number of image cells *)
RdfCoefPerImage(dn, indx, ng, rm, k, nions, L, nframes) ==
    Frac(dn * Volume(L) * (ng - 1) * (ng - 1),
         nions * nions * Ff(indx, rm) * nframes * NumImages(k))

(* 1 / len(indices) / ff / rho / len(fcoords_list) carried by a count dn of
   bin indx (lines 298-299), rho = len(indices) / volume *)
RdfCoef(dn, indx, ng, rm, k, nions, L, nframes) ==
    Frac(dn * Volume(L) * (ng - 1) * (ng - 1),
         nions * nions * Ff(indx, rm) * nframes)

(* lines 290-299: the terms added to rdf[:] *)
RdfTerms(c, ng, rm, k, nions, L, nframes) ==
    LET mc == SelectSeq(MostCommon(c, ng), LAMBDA e : RdfGuard(e[1], ng)) IN
    [i \in 1..Len(mc) |->
        [indx |-> mc[i][1], dn |-> mc[i][2],
         area |-> Ff(mc[i][1], rm),
         coef |-> RdfCoef(mc[i][2], mc[i][1], ng, rm, k, nions, L, nframes)]]

(* the loop of line 280 from structure f on *)
RECURSIVE RdfFrames(_, _, _, _, _, _, _)
RdfFrames(c, fl, f, ng, rm, k, L) ==
    IF f > Len(fl) THEN [err |-> "none", dns |-> c]
    ELSE LET r == RdfFrameOf(c, fl[f], ng, rm, k, L) IN
         IF r.err # "none" THEN [err |-> r.err, dns |-> c]
         ELSE RdfFrames(r.dns, fl, f + 1, ng, rm, k, L)

(* the whole constructor on valid ngrid and sigma: the error raised, or
   the rdf array *)
RdfOf(structs, ng, rm, k, spc, L) ==
    LET ind == Indices(structs[1], spc) IN
    IF Len(ind) = 0 THEN [err |-> "species", rdf |-> <<>>]
    ELSE LET h == RdfFrames(EmptyCounter, FcoordsList(structs, ind), 1, ng, rm, k, L) IN
         IF h.err # "none" THEN [err |-> h.err, rdf |-> <<>>]
         ELSE [err |-> "none",
               rdf |-> AddTerms(ZeroRow(ng),
                                RdfTerms(h.dns, ng, rm, k, Len(ind), L, Len(structs)),
                                1)]

(* lines 243-247 *)
RdfCheck ==
    /\ kind = "rdf"
    /\ pc = "start"
    /\ LET v == RdfValidate(ngrid, sigma) IN
       IF v # "ok" THEN Fail(v) ELSE pc' = "load" /\ err' = err
    /\ UNCHANGED <<kind, ngrid, rmax, sigma, step_skip, avg_nsteps, nsteps,
                   cellrange, species, structures, lattice, indices, it, dns,
                   ntallied, dists, r_indices, ncand, hist, reads, applied,
                   gsrt, gdrt, rdf, obj>>

(* lines 249-278: the structures are read, the species looked up *)
RdfLoad ==
    /\ kind = "rdf"
    /\ pc = "load"
    /\ \E L \in Edges : \E n \in EnsembleSizes : \E e \in Ensembles(L, n) :
          /\ lattice' = L
          /\ structures' = e
          /\ indices' = Indices(e[1], species)
          /\ IF Len(Indices(e[1], species)) = 0
             THEN Fail("species") /\ rdf' = rdf
             ELSE pc' = "frames" /\ err' = err /\ rdf' = ZeroRow(ngrid)
    /\ it' = 0
    /\ UNCHANGED <<kind, ngrid, rmax, sigma, step_skip, avg_nsteps, nsteps,
                   cellrange, species, dns, ntallied, dists, r_indices,
                   ncand, hist, reads, applied, gsrt, gdrt, obj>>

(* lines 280-288: one structure of the loop *)
RdfFrame ==
    /\ kind = "rdf"
    /\ pc = "frames"
    /\ LET fl == FcoordsList(structures, indices)
           r == RdfFrameOf(dns, fl[it + 1], ngrid, rmax, cellrange, lattice)
       IN  /\ dns' = r.dns
           /\ dists' = dists \o r.dists
           /\ r_indices' = r_indices \o r.r_indices
           /\ ncand' = r.ncand
           /\ ntallied' = ntallied + Len(r.r_indices)
           /\ hist' = "rdf"
           /\ IF r.err # "none"
              THEN Fail(r.err) /\ it' = it
              ELSE /\ err' = err
                   /\ it' = it + 1
                   /\ pc' = IF it + 1 < Len(fl) THEN "frames" ELSE "assemble"
    /\ UNCHANGED <<kind, ngrid, rmax, sigma, step_skip, avg_nsteps, nsteps,
                   cellrange, species, structures, lattice, indices, reads,
                   applied, gsrt, gdrt, rdf, obj>>

(* lines 290-299 *)
RdfAssemble ==
    /\ kind = "rdf"
    /\ pc = "assemble"
    /\ LET terms == RdfTerms(dns, ngrid, rmax, cellrange, Len(indices), lattice,
                             Len(structures))
       IN  /\ applied' = terms
           /\ rdf' = AddTerms(rdf, terms, 1)
    /\ pc' = "finish"
    /\ UNCHANGED <<kind, ngrid, rmax, sigma, step_skip, avg_nsteps, nsteps,
                   cellrange, species, err, structures, lattice, indices, it,
                   dns, ntallied, dists, r_indices, ncand, hist, reads,
                   gsrt, gdrt, obj>>

(* lines 301-307 *)
RdfFinish ==
    /\ kind = "rdf"
    /\ pc = "finish"
    /\ obj' = {"structures", "rdf", "interval", "cellrange", "rmax", "ngrid", "species"}
    /\ pc' = "done"
    /\ UNCHANGED <<kind, ngrid, rmax, sigma, step_skip, avg_nsteps, nsteps,
                   cellrange, species, err, structures, lattice, indices, it,
                   dns, ntallied, dists, r_indices, ncand, hist, reads,
                   applied, gsrt, gdrt, rdf>>

----------------------------------------------------------------------------
(* The call: the arguments of either constructor *)
Init ==
    /\ kind \in {"vh", "rdf"}
    /\ ngrid \in 1..MaxGrid
    /\ rmax \in (-1)..MaxR
    /\ sigma \in Sigmas
    /\ species \in SpeciesChoices
    /\ IF kind = "vh"
       THEN /\ step_skip \in StepSkips
            /\ avg_nsteps \in AvgNsteps
            /\ nsteps \in 1..MaxSteps
            /\ cellrange = 1
       ELSE /\ step_skip = 1
            /\ avg_nsteps = 0
            /\ nsteps = 0
            /\ cellrange \in 0..MaxCell
    /\ pc = "start"
    /\ err = "none"
    /\ structures = <<>>
    /\ lattice = 0
    /\ indices = <<>>
    /\ it = 0
    /\ dns = EmptyCounter
    /\ ntallied = 0
    /\ dists = <<>>
    /\ r_indices = <<>>
    /\ ncand = 0
    /\ hist = "none"
    /\ reads = {}
    /\ applied = <<>>
    /\ gsrt = <<>>
    /\ gdrt = <<>>
    /\ rdf = <<>>
    /\ obj = {}

Next ==
    \/ VhCheck
    \/ VhLoad
    \/ VhSelf
    \/ VhDistinct
    \/ VhFinish
    \/ RdfCheck
    \/ RdfLoad
    \/ RdfFrame
    \/ RdfAssemble
    \/ RdfFinish

Spec == Init /\ [][Next]_vars

----------------------------------------------------------------------------
(* Properties *)

InvalidParameter ==
    \/ kind = "vh" /\ step_skip <= 0
    \/ sigma <= 0
    \/ ngrid < 2
    \/ rmax <= 0

(* C1: a constructor called with step_skip <= 0, sigma <= 0, ngrid < 2 or
   rmax <= 0 fails with the invalid-parameter error, so no construction
   with such a parameter completes. *)
C1_InvalidParameterRejected ==
    InvalidParameter => pc # "done"

NoSpeciesMatch ==
    /\ structures # <<>>
    /\ Len(Indices(structures[1], species)) = 0

(* C2: when no site of the first structure has a requested species, either
   constructor (called with valid parameters) fails with the
   empty-selection error: it never completes, and the error it raises is
   that one. *)
C2_EmptySpeciesRejected ==
    (NoSpeciesMatch /\ ~InvalidParameter) =>
        /\ pc # "done"
        /\ (pc = "failed" => err = "species")

ValidationErrors == {"step_skip", "nsteps", "ngrid", "sigma", "species"}

Written(rows) ==
    \E i \in DOMAIN rows : \E b \in DOMAIN rows[i] : rows[i][b] # <<0, 1>>

(* C3: a failed construction has tallied no distance, written no output
   cell and set no attribute on the object, and a validation error is
   raised before any histogram pass has begun. *)
C3_FailsBeforeAccumulation ==
    pc = "failed" =>
        /\ ntallied = 0
        /\ ~Written(gsrt) /\ ~Written(gdrt) /\ ~Written(<<rdf>>)
        /\ applied = <<>>
        /\ obj = {}
        /\ (err \in ValidationErrors => hist = "none" /\ dists = <<>>)

C3_Witness ==
    /\ pc = "failed"
    /\ err = "species"
    /\ structures # <<>>

Orderings(n) ==
    {p \in [1..n -> 1..n] : \A i, j \in 1..n : p[i] = p[j] => i = j}

(* C4: the rdf array is the same for every reordering of the list of
   structures. *)
C4_RdfOrderInvariant ==
    (kind = "rdf" /\ pc = "done" /\ ~InvalidParameter) =>
        \A p \in Orderings(Len(structures)) :
            RdfOf([f \in 1..Len(structures) |-> structures[p[f]]],
                  ngrid, rmax, cellrange, species, lattice)
                = [err |-> "none", rdf |-> rdf]

ExpectedArea(b) == IF b = 0 THEN rmax * rmax ELSE 4 * b * b * rmax * rmax

(* C6: in the distinct-part and RDF assemblies the contribution of a count
   in bin 0 is divided by the disk area pi dr^2, that of a count in bin
   b >= 1 by the shell area 4 pi (b dr)^2, and the divisor is never zero. *)
C6_BinAreas ==
    (hist \in {"distinct", "rdf"}) =>
        \A i \in 1..Len(applied) :
            LET t == applied[i]
                norm == IF hist = "distinct"
                        THEN avg_nsteps * Len(indices) * Len(indices)
                        ELSE Len(indices) * Len(indices) * Len(structures)
            IN  /\ t.area = ExpectedArea(t.indx)
                /\ t.area # 0
                /\ norm # 0
                /\ t.coef = Frac(t.dn * Volume(lattice) * (ngrid - 1) * (ngrid - 1),
                                 norm * ExpectedArea(t.indx))

C6_Witness ==
    /\ hist \in {"distinct", "rdf"}
    /\ \E i, j \in 1..Len(applied) : applied[i].indx = 0 /\ applied[j].indx >= 1

(* every distance through an image cell of the [-k2, k2]^3 cube that lies
   outside the [-k, k]^3 cube fails the cutoff filter *)
OutsideBeyondCutoff(k, k2) ==
    LET fl == FcoordsList(structures, indices)
        images == Images(k2)
    IN  \A j \in DOMAIN images :
            (\E c \in 1..3 : images[j][c] > k \/ images[j][c] < 0 - k) =>
                \A f \in 1..Len(fl) : \A u, v \in 1..Len(indices) :
                    ~RdfPass(D2(fl[f], fl[f], u, v, images[j], lattice), rmax)

(* C7: once every distance through an image cell outside the cellrange
   cube is at or beyond the cutoff of the filter, a larger cellrange
   gives the same rdf. *)
C7_CellrangeSaturates ==
    (kind = "rdf" /\ pc = "done") =>
        \A k2 \in (cellrange + 1)..(MaxCell + 1) :
            OutsideBeyondCutoff(cellrange, k2) =>
                RdfOf(structures, ngrid, rmax, k2, species, lattice)
                    = [err |-> "none", rdf |-> rdf]

C7_Witness ==
    /\ kind = "rdf" /\ pc = "done"
    /\ cellrange >= 1
    /\ OutsideBeyondCutoff(cellrange, cellrange + 1)
    /\ Len(indices) = 2
    /\ Written(<<rdf>>)

(* C8: the pair enumeration over n tracked atoms and m image cells yields
   n (n - 1) m + n (m - 1) candidate distances, and indx0 is the index of
   the one zero image vector. *)
C8_CandidateCount ==
    ((hist = "distinct" /\ avg_nsteps > 0 /\ err = "none") \/ hist = "rdf") =>
        LET n == Len(indices)
            m == NumImages(cellrange)
            images == Images(cellrange)
        IN  /\ ncand = n * (n - 1) * m + n * (m - 1)
            /\ images[Indx0(images)] = <<0, 0, 0>>
            /\ \A j \in DOMAIN images :
                   images[j] = <<0, 0, 0>> => j = Indx0(images)

C8_Witness ==
    /\ hist \in {"distinct", "rdf"}
    /\ Len(indices) = 2
    /\ ncand = 2 * NumImages(cellrange) + 2 * (NumImages(cellrange) - 1)

(* a histogram and the terms assembled from it are both in the state *)
Assembled ==
    \/ kind = "vh" /\ hist \in {"self", "distinct"} /\ pc # "failed"
    \/ kind = "rdf" /\ pc \in {"finish", "done"}

(* r_indices[i] is floor(sqrt(dists[i]) / dr), dr = rmax / (ngrid - 1) *)
IsFloorBin(i) ==
    LET b == r_indices[i]
        s == dists[i] * (ngrid - 1) * (ngrid - 1)
    IN  /\ b >= 0
        /\ b * b * rmax * rmax <= s
        /\ s < (b + 1) * (b + 1) * rmax * rmax

TalliedOnce ==
    /\ Len(r_indices) = Len(dists)
    /\ \A i \in 1..Len(dists) : IsFloorBin(i)
    /\ DOMAIN dns.cnt = {r_indices[i] : i \in 1..Len(r_indices)}
    /\ \A b \in DOMAIN dns.cnt :
           dns.cnt[b] = Cardinality({i \in 1..Len(r_indices) : r_indices[i] = b})

AppliedCount == SumSeq([i \in 1..Len(applied) |-> applied[i].dn], 1)

AppliedOnce ==
    \A i, j \in 1..Len(applied) : applied[i].indx = applied[j].indx => i = j

(* C9 as stated: every distance below the cutoff is tallied once in bin
   floor(d / dr), that bin lies in 0..ngrid-1, and the counts applied by
   the assembler add up to the number of distances below the cutoff. *)
C9_AllTalliesApplied ==
    /\ (hist # "none" /\ err = "none") =>
           /\ TalliedOnce
           /\ \A i \in 1..Len(r_indices) : r_indices[i] \in 0..(ngrid - 1)
    /\ Assembled =>
           /\ AppliedOnce
           /\ AppliedCount = Len(dists)

(* C9 as amended: in the van Hove passes all of the above holds; in the RDF
   pass the bin lies in 0..ngrid-1 for every distance d <= rmax (a distance
   between rmax and rmax + 1e-8 can fall in a bin >= ngrid), the applied
   counts never exceed the number of distances below the cutoff, and they
   equal it whenever every tallied bin lies in 0..ngrid-1. *)
C9_TalliesAppliedInGrid ==
    /\ (hist # "none" /\ err = "none") =>
           /\ TalliedOnce
           /\ \A i \in 1..Len(r_indices) :
                  (kind = "vh" \/ dists[i] <= rmax * rmax)
                      => r_indices[i] \in 0..(ngrid - 1)
    /\ Assembled =>
           /\ AppliedOnce
           /\ AppliedCount <= Len(dists)
           /\ \A i \in 1..Len(applied) :
                  /\ applied[i].indx \in DOMAIN dns.cnt
                  /\ applied[i].dn = dns.cnt[applied[i].indx]
           /\ (\A i \in 1..Len(r_indices) : r_indices[i] \in 0..(ngrid - 1))
                  => AppliedCount = Len(dists)

C9_Witness ==
    /\ kind = "rdf" /\ pc = "done"
    /\ Len(applied) = ngrid
    /\ \E i \in 1..Len(dists) : dists[i] = rmax * rmax
    /\ AppliedCount = Len(dists)

(* C10: every frame index read by the self-part and distinct-part loops of
   an accepted configuration lies in 0..nsteps-1: for all it and it1,
   it1 and it0 + it1 with it0 = min(it * step_skip, ntsteps). *)
C10_FrameIndicesInRange ==
    kind = "vh" =>
        /\ reads \subseteq 0..(nsteps - 1)
        /\ err # "IndexError"
        /\ pc \notin {"start", "failed"} =>
               LET nts == Ntsteps(nsteps, avg_nsteps) IN
               \A i \in 0..(ReducedNt(nts, step_skip) - 1) :
                   \A i1 \in 0..(avg_nsteps - 1) :
                       /\ i1 \in 0..(nsteps - 1)
                       /\ It0(i, step_skip, nts) + i1 \in 0..(nsteps - 1)

C10_Witness ==
    /\ kind = "vh" /\ pc = "done"
    /\ avg_nsteps > 1
    /\ Len(indices) > 0
    /\ It0(1, step_skip, Ntsteps(nsteps, avg_nsteps)) > 0
    /\ (nsteps - 1) \in reads

====
